---- MODULE Spec2Model ----
(***************************************************************************)
(* Model of scripts/download_data.py: a straight-line script that          *)
(*   line 18  downloads a (field, ticker) x date table from the provider,  *)
(*   line 21  selects the "Close" sub-table,                               *)
(*   line 24  serialises it to ./data/dow_jones_close_prices_aug_dec_2024  *)
(*            .csv.                                                        *)
(* The provider is a stub that holds one synthetic table; a download       *)
(* either returns that table or raises.  The file system and the stub      *)
(* outlive a run of the script, the script's names do not.                 *)
(***************************************************************************)
EXTENDS Integers, Sequences, FiniteSets, TLC

VARIABLES pc, provider, raw_data, close_data, dirs, files, exit_status,
          requests, written, steps, runs, filesAtStart, lastOutput

vars == <<pc, provider, raw_data, close_data, dirs, files, exit_status,
          requests, written, steps, runs, filesAtStart, lastOutput>>

----------------------------------------------------------------------------
(* Bounds of the model *)

NumTickers == 2     \* the stub has data for the first NumTickers tickers
NumDates == 2       \* the stub has data for at most NumDates trading days
MaxRuns == 2        \* the script is run at most MaxRuns times

----------------------------------------------------------------------------
(* Literal constants of the script *)

tickers ==
    << "UNH", "GS", "MSFT", "HD", "V", "SHW", "MCD", "CAT", "AMGN", "AXP",
       "TRV", "CRM", "IBM", "JPM", "AAPL", "HON", "AMZN", "PG", "BA", "JNJ",
       "CVX", "MMM", "NVDA", "WMT", "DIS", "MRK", "KO", "CSCO", "NKE", "VZ" >>

start_date == "2024-08-01"
end_date == "2024-12-31"

CloseKey == "Close"
OutDir == "./data"
OutPath == "./data/dow_jones_close_prices_aug_dec_2024.csv"

----------------------------------------------------------------------------
(* Helpers *)

Range(s) == { s[i] : i \in DOMAIN s }

InjSeqs(S) ==
    UNION { { s \in [1..k -> S] : \A i, j \in 1..k : i # j => s[i] # s[j] }
            : k \in 0..Cardinality(S) }

Pos(s, x) == CHOOSE i \in DOMAIN s : s[i] = x

----------------------------------------------------------------------------
(* The provider's table: what yf.download returns *)

Fields == {"Close", "Open"}
Universe == { tickers[i] : i \in 1..NumTickers }
Dates == 1..NumDates
NaN == 0 - 1

FieldCode(f) == IF f = "Close" THEN 1 ELSE 2

\* synthetic prices: a different number in every (field, ticker, date) cell
Price(f, t, d) == FieldCode(f) * 100 + Pos(tickers, t) * 10 + d

\* column keys of a table with the given fields and tickers; the provider
\* groups them by field or by ticker
Columns(fieldSeq, tickSeq, group) ==
    LET nf == Len(fieldSeq)
        nt == Len(tickSeq)
    IN  [ k \in 1..(nf * nt) |->
            IF group = "column"
            THEN << fieldSeq[((k - 1) \div nt) + 1], tickSeq[((k - 1) % nt) + 1] >>
            ELSE << fieldSeq[((k - 1) % nf) + 1], tickSeq[((k - 1) \div nf) + 1] >> ]

Frame(cols, index, missing) ==
    [ kind |-> "frame",
      columns |-> cols,
      index |-> index,
      data |-> [ c \in Range(cols) \X Range(index) |->
                   IF << c[1][2], c[2] >> \in missing
                   THEN NaN
                   ELSE Price(c[1][1], c[1][2], c[2]) ] ]

Responses ==
    { Frame(Columns(fs, ts, g), idx, m) :
        fs \in InjSeqs(Fields), ts \in InjSeqs(Universe),
        g \in {"column", "ticker"}, idx \in InjSeqs(Dates),
        m \in SUBSET (Universe \X Dates) }

Unset == [ kind |-> "unset" ]

----------------------------------------------------------------------------
(* raw_data["Close"]: the columns whose first level is the key, in the      *)
(* order the frame has them, keyed by the remaining level                  *)

HasKey(df, key) == \E i \in DOMAIN df.columns : df.columns[i][1] = key

\* variant: takes the first column's field instead of the key
GetItemFirstField(df, key) ==
    LET k == df.columns[1][1]
        sel == SelectSeq(df.columns, LAMBDA c : c[1] = k)
        cols == [ i \in DOMAIN sel |-> sel[i][2] ]
    IN  [ kind |-> "frame",
          columns |-> cols,
          index |-> df.index,
          data |-> [ c \in Range(cols) \X Range(df.index) |->
                       df.data[<< << k, c[1] >>, c[2] >>] ] ]

GetItem(df, key) ==
    LET sel == SelectSeq(df.columns, LAMBDA c : c[1] = key)
        cols == [ i \in DOMAIN sel |-> sel[i][2] ]
    IN  [ kind |-> "frame",
          columns |-> cols,
          index |-> df.index,
          data |-> [ c \in Range(cols) \X Range(df.index) |->
                       df.data[<< << key, c[1] >>, c[2] >>] ] ]

----------------------------------------------------------------------------
(* close_data.to_csv(path): a header row, then one row per index entry     *)

na_rep == ""

FloatRepr(v) == ToString(v) \o ".0"

DateStr(d) == "2024-08-0" \o ToString(d)

\* variant: a placeholder for missing values
FormatCellPlaceholder(v) == IF v = NaN THEN "nan" ELSE FloatRepr(v)

FormatCell(v) == IF v = NaN THEN na_rep ELSE FloatRepr(v)

CsvRows(columns, index, data) ==
    << << "Date" >> \o columns >> \o
    [ r \in DOMAIN index |->
        << DateStr(index[r]) >> \o
        [ c \in DOMAIN columns |-> FormatCell(data[<< columns[c], index[r] >>]) ] ]

\* variant: the columns reindexed to the order of the ticker list
ToCsvInputOrder(df) ==
    CsvRows(SortSeq(df.columns, LAMBDA a, b : Pos(tickers, a) < Pos(tickers, b)),
            df.index, df.data)

\* variant: the rows sorted by date
ToCsvSorted(df) ==
    CsvRows(df.columns, SortSeq(df.index, LAMBDA a, b : a < b), df.data)

ToCsv(df) == CsvRows(df.columns, df.index, df.data)

OldCsv == << << "Date", "OLD" >>, << "2023-01-02", "1.0" >> >>

Request == [ tickers |-> tickers, start |-> start_date, end |-> end_date ]

----------------------------------------------------------------------------
(* State machine *)

Init ==
    /\ pc = "download"
    /\ provider \in Responses
    /\ raw_data = Unset
    /\ close_data = Unset
    /\ \E d \in SUBSET {OutDir} :
         /\ dirs = d
         /\ \/ files = << >>
            \/ OutDir \in d /\ files = (OutPath :> OldCsv)
         /\ filesAtStart = files
    /\ exit_status = NaN
    /\ requests = << >>
    /\ written = << >>
    /\ steps = << >>
    /\ runs = 1
    /\ lastOutput = << >>

\* variant: the request is sent a second time
DownloadRetry ==
    /\ pc = "download"
    /\ requests' = requests \o << Request, Request >>
    /\ raw_data' = provider
    /\ steps' = Append(steps, "acquire")
    /\ pc' = "project"
    /\ UNCHANGED <<provider, close_data, dirs, files, exit_status, written,
                   runs, filesAtStart, lastOutput>>

\* line 18, the provider answers
Download ==
    /\ pc = "download"
    /\ requests' = Append(requests, Request)
    /\ raw_data' = provider
    /\ steps' = Append(steps, "acquire")
    /\ pc' = "project"
    /\ UNCHANGED <<provider, close_data, dirs, files, exit_status, written,
                   runs, filesAtStart, lastOutput>>

\* variant: the error is handled and an empty file is left behind
DownloadFailsCaught ==
    /\ pc = "download"
    /\ requests' = Append(requests, Request)
    /\ files' = IF OutDir \in dirs THEN (OutPath :> << >>) @@ files ELSE files
    /\ exit_status' = 1
    /\ pc' = "exited"
    /\ UNCHANGED <<provider, raw_data, close_data, dirs, written,
                   steps, runs, filesAtStart, lastOutput>>

\* line 18, the call raises: the script has no handler
DownloadFails ==
    /\ pc = "download"
    /\ requests' = Append(requests, Request)
    /\ exit_status' = 1
    /\ pc' = "exited"
    /\ UNCHANGED <<provider, raw_data, close_data, dirs, files, written,
                   steps, runs, filesAtStart, lastOutput>>

\* line 21
Project ==
    /\ pc = "project"
    /\ HasKey(raw_data, CloseKey)
    /\ close_data' = GetItem(raw_data, CloseKey)
    /\ steps' = Append(steps, "project")
    /\ pc' = "write"
    /\ UNCHANGED <<provider, raw_data, dirs, files, exit_status, requests,
                   written, runs, filesAtStart, lastOutput>>

\* variant: a missing key yields an empty table and the script goes on
ProjectEmpty ==
    /\ pc = "project"
    /\ ~HasKey(raw_data, CloseKey)
    /\ close_data' = GetItem(raw_data, CloseKey)
    /\ steps' = Append(steps, "project")
    /\ pc' = "write"
    /\ UNCHANGED <<provider, raw_data, dirs, files, exit_status, requests,
                   written, runs, filesAtStart, lastOutput>>

\* line 21, KeyError
ProjectFails ==
    /\ pc = "project"
    /\ ~HasKey(raw_data, CloseKey)
    /\ exit_status' = 1
    /\ pc' = "exited"
    /\ UNCHANGED <<provider, raw_data, close_data, dirs, files, requests,
                   written, steps, runs, filesAtStart, lastOutput>>

\* variant: the file is opened for appending
WriteAppend ==
    /\ pc = "write"
    /\ OutDir \in dirs
    /\ files' = (OutPath :> ((IF OutPath \in DOMAIN files THEN files[OutPath] ELSE << >>)
                               \o ToCsv(close_data))) @@ files
    /\ written' = Append(written, OutPath)
    /\ steps' = Append(steps, "persist")
    /\ exit_status' = 0
    /\ pc' = "exited"
    /\ UNCHANGED <<provider, raw_data, close_data, dirs, requests, runs,
                   filesAtStart, lastOutput>>

\* line 24, then the end of the script
Write ==
    /\ pc = "write"
    /\ OutDir \in dirs
    /\ files' = (OutPath :> ToCsv(close_data)) @@ files
    /\ written' = Append(written, OutPath)
    /\ steps' = Append(steps, "persist")
    /\ exit_status' = 0
    /\ pc' = "exited"
    /\ UNCHANGED <<provider, raw_data, close_data, dirs, requests, runs,
                   filesAtStart, lastOutput>>

\* variant: the parent directory is created and the file written
WriteMakesDir ==
    /\ pc = "write"
    /\ OutDir \notin dirs
    /\ dirs' = dirs \cup {OutDir}
    /\ files' = (OutPath :> ToCsv(close_data)) @@ files
    /\ written' = Append(written, OutPath)
    /\ steps' = Append(steps, "persist")
    /\ exit_status' = 0
    /\ pc' = "exited"
    /\ UNCHANGED <<provider, raw_data, close_data, requests, runs,
                   filesAtStart, lastOutput>>

\* variant: the write is skipped without an error
WriteFailsSilent ==
    /\ pc = "write"
    /\ OutDir \notin dirs
    /\ exit_status' = 0
    /\ pc' = "exited"
    /\ UNCHANGED <<provider, raw_data, close_data, dirs, files, requests,
                   written, steps, runs, filesAtStart, lastOutput>>

\* line 24, OSError: the parent directory does not exist
WriteFails ==
    /\ pc = "write"
    /\ OutDir \notin dirs
    /\ exit_status' = 1
    /\ pc' = "exited"
    /\ UNCHANGED <<provider, raw_data, close_data, dirs, files, requests,
                   written, steps, runs, filesAtStart, lastOutput>>

\* the script is started again: a fresh interpreter, the same file system
Rerun ==
    /\ pc = "exited"
    /\ runs < MaxRuns
    /\ runs' = runs + 1
    /\ lastOutput' = IF exit_status = 0 THEN << files[OutPath] >> ELSE lastOutput
    /\ filesAtStart' = files
    /\ raw_data' = Unset
    /\ close_data' = Unset
    /\ exit_status' = NaN
    /\ requests' = << >>
    /\ written' = << >>
    /\ steps' = << >>
    /\ pc' = "download"
    /\ UNCHANGED <<provider, dirs, files>>

Next ==
    \/ Download
    \/ DownloadFails
    \/ Project
    \/ ProjectFails
    \/ Write
    \/ WriteFails
    \/ Rerun

Spec == Init /\ [][Next]_vars

----------------------------------------------------------------------------
(* Reading the file back *)

DONE == pc = "exited" /\ exit_status = 0
Downloaded == raw_data # Unset
Output == files[OutPath]
DataRows == 2..Len(Output)
TickerCols == 2..Len(Output[1])

DateOf(s) == CHOOSE d \in Dates : "2024-08-0" \o ToString(d) = s
CellValue(s) == IF s = "" THEN NaN ELSE CHOOSE v \in 100..999 : ToString(v) \o ".0" = s

RespHasClose == \E c \in Range(raw_data.columns) : c[1] = "Close"
RespCloseTickers == { c[2] : c \in { x \in Range(raw_data.columns) : x[1] = "Close" } }
RespDates == Range(raw_data.index)
RespOtherValues ==
    { raw_data.data[k] : k \in { x \in DOMAIN raw_data.data : x[1][1] # "Close" } } \ {NaN}

\* C1: after a successful run the file is exactly the Close projection of
\* the response: one header row, one data row per date of the response (none
\* added, dropped or duplicated), one column per Close ticker, every cell
\* holding the response's ("Close", ticker) value for that date, and no cell
\* holding a value of another field.
C1_CloseProjection ==
    DONE =>
        /\ OutPath \in DOMAIN files
        /\ Len(Output) = 1 + Cardinality(RespDates)
        /\ { Output[r][1] : r \in DataRows } = { DateStr(d) : d \in RespDates }
        /\ Len(Output[1]) = 1 + Cardinality(RespCloseTickers)
        /\ { Output[1][c] : c \in TickerCols } = RespCloseTickers
        /\ \A r \in DataRows :
             /\ Len(Output[r]) = Len(Output[1])
             /\ \A c \in TickerCols :
                  /\ CellValue(Output[r][c]) =
                       raw_data.data[<< << "Close", Output[1][c] >>, DateOf(Output[r][1]) >>]
                  /\ CellValue(Output[r][c]) \notin RespOtherValues

C1_Witness ==
    /\ DONE
    /\ Len(Output) = 3
    /\ Len(Output[1]) = 3
    /\ RespOtherValues # {}
    /\ \E r \in DataRows, c \in TickerCols : Output[r][c] # ""

\* C2 as stated: the first column is the date and the ticker columns follow
\* the order of the input ticker list, whatever order the provider uses.
C2_InputOrder ==
    DONE =>
        /\ Output[1][1] = "Date"
        /\ \A i, j \in TickerCols :
             i < j => Pos(tickers, Output[1][i]) < Pos(tickers, Output[1][j])

\* C2 amended: the first column is the date and the ticker columns are the
\* response's Close columns in the order the response has them.
C2_ProviderOrder ==
    DONE =>
        /\ Output[1][1] = "Date"
        /\ \A r \in DataRows : \E d \in RespDates : Output[r][1] = DateStr(d)
        /\ SubSeq(Output[1], 2, Len(Output[1])) =
             LET sel == SelectSeq(raw_data.columns, LAMBDA c : c[1] = "Close")
             IN  [ i \in DOMAIN sel |-> sel[i][2] ]

C2_Witness ==
    /\ DONE
    /\ Len(Output) > 1
    /\ Len(Output[1]) = 3
    /\ Pos(tickers, Output[1][2]) > Pos(tickers, Output[1][3])

\* C3: a response with a missing closing price does not fail the run: when
\* the download returned a table with a Close field and ./data exists, the
\* run ends with status 0, the file is there, and every cell whose closing
\* price is missing is the empty string.
C3_MissingIsEmpty ==
    (/\ pc = "exited"
     /\ Downloaded
     /\ RespHasClose
     /\ OutDir \in dirs)
    => /\ exit_status = 0
       /\ OutPath \in DOMAIN files
       /\ \A r \in DataRows, c \in TickerCols :
            raw_data.data[<< << "Close", Output[1][c] >>, DateOf(Output[r][1]) >>] = NaN
            => Output[r][c] = ""

C3_Witness ==
    /\ DONE
    /\ \E r \in DataRows, c \in TickerCols : Output[r][c] = ""
    /\ \E r \in DataRows, c \in TickerCols : Output[r][c] # ""

\* C4: a failed download ends the run with a non-zero status after exactly
\* one request, without a write, and leaves the file system as the run
\* found it.
C4_DownloadFailure ==
    (pc = "exited" /\ ~Downloaded) =>
        /\ exit_status # 0
        /\ Len(requests) = 1
        /\ written = << >>
        /\ steps = << >>
        /\ files = filesAtStart

C4_Witness ==
    /\ pc = "exited"
    /\ ~Downloaded
    /\ runs = 2
    /\ lastOutput # << >>
    /\ OutPath \in DOMAIN files
    /\ files[OutPath] = lastOutput[1]

\* C5: when ./data does not exist at the write step, the step ends the run
\* with a non-zero status, creates no directory and no file.
C5_MissingDirectory ==
    [][ (pc = "write" /\ OutDir \notin dirs) =>
            /\ pc' = "exited"
            /\ exit_status' # 0
            /\ dirs' = dirs
            /\ files' = files
            /\ OutPath \notin DOMAIN files' ]_vars

C5_Witness ==
    /\ pc = "exited"
    /\ steps = << "acquire", "project" >>
    /\ OutDir \notin dirs
    /\ exit_status = 1

\* C6: a successful run leaves the file that the previous successful run
\* with the same response left, and that file is the serialisation of the
\* response's Close table alone, whatever the file held before.
C6_Idempotent ==
    DONE =>
        /\ lastOutput # << >> => Output = lastOutput[1]
        /\ Output[1][1] = "Date"
        /\ Len(Output) = 1 + Len(raw_data.index)

C6_Witness ==
    /\ DONE
    /\ runs = 2
    /\ lastOutput # << >>
    /\ Len(Output) > 1

\* C7: a run issues at most one download request, exactly one once the
\* download statement has run, for the whole ticker list and date range;
\* it writes at most one file, at the fixed path, and changes nothing else.
C7_Effects ==
    /\ Len(requests) <= 1
    /\ pc # "download" => Len(requests) = 1
    /\ \A i \in DOMAIN requests :
         /\ Len(requests[i].tickers) = 30
         /\ requests[i].tickers[1] = "UNH"
         /\ requests[i].tickers[30] = "VZ"
         /\ requests[i].start = "2024-08-01"
         /\ requests[i].end = "2024-12-31"
    /\ Len(written) <= 1
    /\ \A i \in DOMAIN written :
         written[i] = "./data/dow_jones_close_prices_aug_dec_2024.csv"
    /\ DOMAIN files \ {OutPath} = DOMAIN filesAtStart \ {OutPath}
    /\ \A p \in DOMAIN files \ {OutPath} : files[p] = filesAtStart[p]
    /\ written = << >> => files = filesAtStart

C7_Witness ==
    /\ DONE
    /\ Len(requests) = 1
    /\ written = << OutPath >>
    /\ files # filesAtStart

\* C8: the steps of a run are a prefix of acquire, project, persist, each at
\* most once; the projection exists only after the download, the write only
\* after the projection, and status 0 only after all three.
C8_StepOrder ==
    /\ \E n \in 0..3 : steps = SubSeq(<< "acquire", "project", "persist" >>, 1, n)
    /\ (Len(steps) >= 1) <=> Downloaded
    /\ (Len(steps) >= 2) <=> (close_data # Unset)
    /\ (Len(steps) = 3) <=> (written # << >>)
    /\ exit_status = 0 =>
         /\ steps = << "acquire", "project", "persist" >>
         /\ written = << OutPath >>
         /\ OutPath \in DOMAIN files
         /\ pc = "exited"

C8_Witness ==
    /\ DONE
    /\ steps = << "acquire", "project", "persist" >>
    /\ runs = 2

\* C9 as stated: the data rows are in ascending date order, one per date of
\* the response, also when the response's rows are not sorted.
C9_Ascending ==
    DONE =>
        /\ Len(Output) = 1 + Cardinality(RespDates)
        /\ \A r, s \in DataRows : r < s => DateOf(Output[r][1]) < DateOf(Output[s][1])

\* C9 amended: the data rows are the response's rows in the response's own
\* order, one per date of the response.
C9_ResponseOrder ==
    DONE =>
        /\ Len(Output) = 1 + Cardinality(RespDates)
        /\ [ r \in 1..(Len(Output) - 1) |-> DateOf(Output[r + 1][1]) ] = raw_data.index

C9_Witness ==
    /\ DONE
    /\ Len(Output) = 3
    /\ DateOf(Output[2][1]) > DateOf(Output[3][1])

\* C10: a response without a Close field ends the run with a non-zero
\* status before the write, leaving the file system as it was; whenever a
\* file was written, the response had the Close field.
C10_NoCloseField ==
    /\ (pc = "exited" /\ Downloaded /\ ~RespHasClose) =>
         /\ exit_status # 0
         /\ steps = << "acquire" >>
         /\ written = << >>
         /\ files = filesAtStart
    /\ written # << >> => (Downloaded /\ RespHasClose)

C10_Witness ==
    /\ pc = "exited"
    /\ Downloaded
    /\ ~RespHasClose
    /\ raw_data.columns # << >>
    /\ OutPath \in DOMAIN files

====
